---- MODULE Spec2Model ----
\* Credential-resolution flow of src/helix/mlaas.py: token reuse or login,
\* account lookup or signup, catalog reading, application reuse or registration.
\* One run of main() is a sequence of steps, one per request or prompt; the
\* token cache file and the 3scale server outlive the run (NewRun starts the
\* next process).
EXTENDS Integers, Sequences, FiniteSets, TLC

\* ---------------------------------------------------------------- bounds
MaxNow == 1          \* wall-clock values 0..MaxNow
MaxApps == 2         \* applications the server can hold
MaxPrompts == 1      \* answers given to the service-selection prompt
MaxEntries == 3      \* elements in a catalog reply handed to the readers alone

\* ------------------------------------------------------ program constants
ReuseBufferSeconds == 60

\* ------------------------------------------------------------ value sets
None == "<None>"                     \* Python None / absent XML element or claim
Truthy(v) == v # None /\ v # ""      \* Python truthiness of an optional string

Soeids == {"jdoe", "sub-1"}
Emails == {"jdoe@corp"}
Passwords == {"pw"}

\* ------------------------------------------------------------- tokens
\* An access-token string. kind "jwt" decodes to the claims below, "garbage" is
\* a non-empty string that does not decode, "empty" is "", "null" is a JSON
\* null, "absent" is a missing key.
Tok(kind, has_exp, exp, email, pu, sub) ==
    [kind |-> kind, has_exp |-> has_exp, exp |-> exp, email |-> email,
     preferred_username |-> pu, sub |-> sub]
JWT(has_exp, exp, email, pu, sub) == Tok("jwt", has_exp, exp, email, pu, sub)
GarbageTok == Tok("garbage", FALSE, 0, None, None, None)
EmptyTok == Tok("empty", FALSE, 0, None, None, None)
NullTok == Tok("null", FALSE, 0, None, None, None)
AbsentTok == Tok("absent", FALSE, 0, None, None, None)

\* `if current_access_token:` / `if not keycloak_access_token:`
TokTruthy(t) == t.kind \in {"jwt", "garbage"}

\* jwt.decode(token, options={"verify_signature": False}): raises on anything
\* that is not a JWT, otherwise returns the claims unverified.
jwt_decode(t) == [ok |-> t.kind = "jwt", claims |-> t]

\* str(value) as written by config.set, then read back by config.get: a JSON
\* null is stored as the text "None", which is a non-empty undecodable string.
IniStr(t) == IF t.kind = "null" THEN GarbageTok ELSE t

\* ------------------------------------------------------- token cache file
\* Section [KeycloakToken] of ~/.threescale_sso_config.ini: whether the section
\* exists, and the values of the keys access_token and refresh_token (AbsentTok
\* and None when the key is not in the file).
NoCache == [section |-> FALSE, access_token |-> AbsentTok, refresh_token |-> None]
CacheOf(t, r) == [section |-> TRUE, access_token |-> t, refresh_token |-> r]

CachedExps == {ReuseBufferSeconds, ReuseBufferSeconds + 1}
InitialCaches ==
    {NoCache, CacheOf(GarbageTok, "r0"), CacheOf(EmptyTok, "r0")}
    \cup {CacheOf(JWT(TRUE, e, "jdoe@corp", "jdoe", "sub-1"), "r0") : e \in CachedExps}
    \cup {CacheOf(JWT(FALSE, 0, "jdoe@corp", "jdoe", "sub-1"), "r0"),
          CacheOf(JWT(TRUE, ReuseBufferSeconds + 2, None, "jdoe", "sub-1"), "r0"),
          CacheOf(JWT(TRUE, ReuseBufferSeconds + 2, "", "jdoe", "sub-1"), "r0"),
          CacheOf(JWT(TRUE, ReuseBufferSeconds + 1, "jdoe@corp", None, "sub-1"), "r0"),
          CacheOf(JWT(TRUE, ReuseBufferSeconds + 2, "jdoe@corp", None, None), "r0")}

\* a username read from preferred_username only
soeid_from_token_NoSubFallback(claims) == claims.preferred_username

\* `decoded_token.get('preferred_username') or decoded_token.get('sub')`
soeid_from_token(claims) ==
    IF Truthy(claims.preferred_username) THEN claims.preferred_username ELSE claims.sub

\* a validation that does not look at the email claim
TokenReusable_NoEmailCheck(c, t) ==
    /\ c.section
    /\ TokTruthy(c.access_token)
    /\ jwt_decode(c.access_token).ok
    /\ LET claims == jwt_decode(c.access_token).claims IN
       /\ claims.has_exp /\ claims.exp # 0
       /\ Truthy(soeid_from_token(claims))
       /\ claims.exp > t + ReuseBufferSeconds

\* a validation that accepts a token expiring exactly at now + 60
TokenReusable_AtBoundary(c, t) ==
    /\ c.section
    /\ TokTruthy(c.access_token)
    /\ jwt_decode(c.access_token).ok
    /\ LET claims == jwt_decode(c.access_token).claims IN
       /\ claims.has_exp /\ claims.exp # 0
       /\ Truthy(claims.email)
       /\ Truthy(soeid_from_token(claims))
       /\ claims.exp >= t + ReuseBufferSeconds

\* Lines 179-205: the cached token is reused iff the section and a non-empty
\* access_token exist, the token decodes, exp, email and a username are truthy
\* and exp > now + 60.
TokenReusable(c, t) ==
    /\ c.section
    /\ TokTruthy(c.access_token)
    /\ jwt_decode(c.access_token).ok
    /\ LET claims == jwt_decode(c.access_token).claims IN
       /\ claims.has_exp /\ claims.exp # 0
       /\ Truthy(claims.email)
       /\ Truthy(soeid_from_token(claims))
       /\ claims.exp > t + ReuseBufferSeconds

\* ------------------------------------------------- identity provider replies
\* What make_api_call returns for the password-grant request: None (ok = FALSE:
\* rejected credentials, connection error, timeout, bad JSON) or the JSON
\* object, of which the keys access_token and refresh_token are modelled.
LoginError == [ok |-> FALSE, empty |-> TRUE, access_token |-> AbsentTok, refresh_token |-> None]
\* no login has been saved yet
NothingIssued == LoginError @@ [username |-> None]
LoginJson(t, r) == [ok |-> TRUE, empty |-> (t.kind = "absent" /\ r = None),
                    access_token |-> t, refresh_token |-> r]
\* the tokens the provider issues at time t expire at t + 61; they may lack
\* the email claim
IssuedTokens(t, user) ==
    {JWT(TRUE, t + ReuseBufferSeconds + 1, "jdoe@corp", user, "sub-1"),
     JWT(TRUE, t + ReuseBufferSeconds + 1, None, user, "sub-1")}
\* the tokens of a provider that maps no preferred_username claim: the token
\* names its user by sub alone, the provider's own id of the user
IssuedTokensSubOnly(t) ==
    {JWT(TRUE, t + ReuseBufferSeconds + 1, "jdoe@corp", None, "sub-1")}
Realms == {"preferred_username", "sub"}
LoginResponses(t, user, rlm) ==
    {LoginError, LoginJson(AbsentTok, None), LoginJson(AbsentTok, "r1"),
     LoginJson(EmptyTok, "r1"), LoginJson(NullTok, None), LoginJson(GarbageTok, None)}
    \cup {LoginJson(tok, "r1") :
            tok \in IF rlm = "sub" THEN IssuedTokensSubOnly(t) ELSE IssuedTokens(t, user)}

\* a save that sets only the keys the section does not have yet
save_token_KeepsExisting(c, token_data) ==
    [section |-> TRUE,
     access_token |-> IF c.access_token.kind # "absent"
                      THEN c.access_token ELSE IniStr(token_data.access_token),
     refresh_token |-> IF c.refresh_token # None
                       THEN c.refresh_token ELSE token_data.refresh_token]

\* Lines 252-256: every key of the payload is set in the section, keys of the
\* file that the payload lacks keep their old value, then the file is saved.
\* (The file system is taken to accept the write.)
save_token(c, token_data) ==
    [section |-> TRUE,
     access_token |-> IniStr(token_data.access_token),
     refresh_token |-> IF token_data.refresh_token # None
                       THEN token_data.refresh_token ELSE c.refresh_token]

\* sso_login_and_get_credentials: the returned tuple, the cache file afterwards,
\* the requests issued and the prompts shown.  default_soeid is the output of
\* whoami, entered and pw are the answers to the two prompts, resp the reply
\* of the identity endpoint.
AuthResult(tok, user, pw, email, c, reqs, prompted, saves) ==
    [access_token |-> tok, soeid |-> user, password |-> pw, email_id |-> email,
     cache |-> c, requests |-> reqs, prompts |-> prompted, saves |-> saves]

TokenRequest(user, pw, resp) ==
    [op |-> "token", username |-> user, password |-> pw, resp |-> resp]

\* a login that saves every payload it receives, with or without access_token
fresh_login_SavesAnyReply(c, user, pw, resp) ==
    IF resp.ok /\ ~resp.empty
    THEN LET d == jwt_decode(resp.access_token) IN
         AuthResult(IF resp.access_token.kind # "absent" THEN resp.access_token ELSE AbsentTok,
                    user, pw,
                    IF d.ok THEN d.claims.email ELSE None,
                    save_token(c, resp),
                    <<TokenRequest(user, pw, resp)>>, <<"soeid", "password">>, 1)
    ELSE AuthResult(AbsentTok, user, pw, None, c,
                    <<TokenRequest(user, pw, resp)>>, <<"soeid", "password">>, 0)

\* a login that, when the request brings no token, goes on with the cached one
fresh_login_FallsBackToCache(c, user, pw, resp) ==
    IF resp.ok /\ ~resp.empty /\ resp.access_token.kind # "absent"
    THEN LET d == jwt_decode(resp.access_token) IN
         AuthResult(resp.access_token, user, pw,
                    IF d.ok THEN d.claims.email ELSE None,
                    save_token(c, resp),
                    <<TokenRequest(user, pw, resp)>>, <<"soeid", "password">>, 1)
    ELSE AuthResult(c.access_token, user, pw, "jdoe@corp", c,
                    <<TokenRequest(user, pw, resp)>>, <<"soeid", "password">>, 0)

\* lines 224-267: the password-grant request and what follows its reply; the
\* payload is saved when it is a non-empty object with an access_token key
fresh_login(c, user, pw, resp) ==
    IF resp.ok /\ ~resp.empty /\ resp.access_token.kind # "absent"
    THEN LET d == jwt_decode(resp.access_token) IN
         AuthResult(resp.access_token, user, pw,
                    IF d.ok THEN d.claims.email ELSE None,
                    save_token(c, resp),
                    <<TokenRequest(user, pw, resp)>>, <<"soeid", "password">>, 1)
    ELSE AuthResult(AbsentTok, user, pw, None, c,
                    <<TokenRequest(user, pw, resp)>>, <<"soeid", "password">>, 0)

\* an authentication that returns an empty password, not None, on reuse
sso_login_and_get_credentials_EmptyPassword(c, t, default_soeid, entered, pw, resp) ==
    IF TokenReusable(c, t)
    THEN LET claims == jwt_decode(c.access_token).claims IN
         AuthResult(c.access_token, soeid_from_token(claims), "", claims.email,
                    c, <<>>, <<>>, 0)
    ELSE LET user == IF entered = "" /\ default_soeid # "" THEN default_soeid ELSE entered IN
         IF user = ""
         THEN AuthResult(AbsentTok, None, None, None, c, <<>>, <<"soeid">>, 0)
         ELSE fresh_login(c, user, pw, resp)

\* lines 162-267: reuse the cached token when it is valid, otherwise ask for
\* the identifier and the password and log in
sso_login_and_get_credentials(c, t, default_soeid, entered, pw, resp) ==
    IF TokenReusable(c, t)
    THEN LET claims == jwt_decode(c.access_token).claims IN
         AuthResult(c.access_token, soeid_from_token(claims), None, claims.email,
                    c, <<>>, <<>>, 0)
    ELSE LET user == IF entered = "" /\ default_soeid # "" THEN default_soeid ELSE entered IN
         IF user = ""
         THEN AuthResult(AbsentTok, None, None, None, c, <<>>, <<"soeid">>, 0)
         ELSE fresh_login(c, user, pw, resp)

\* ------------------------------------------------------- 3scale catalog
\* What make_api_call returns for a GET: None (ok = FALSE: HTTP error,
\* connection error, timeout, XML parse error) or the parsed root, of which
\* body lists the child elements the caller iterates over.
ApiError == [ok |-> FALSE, body |-> <<>>]
ApiOk(body) == [ok |-> TRUE, body |-> body]

Svc(id, name) == [id |-> id, name |-> name]
Plan(id, name) == [id |-> id, name |-> name]
\* the catalog of the server: service 1 has two plans, service 2 has none
CatalogServices == <<Svc("1", "svcA"), Svc("2", "svcB")>>
CatalogPlans(sid) ==
    IF sid = "1" THEN <<Plan("9", "basic"), Plan("10", "gold")>> ELSE <<>>
\* the service an application plan belongs to
PlanService(pid) == IF pid \in {"9", "10"} THEN "1" ELSE None

ServicesResponses ==
    {ApiError, ApiOk(<<>>), ApiOk(CatalogServices),
     ApiOk(<<Svc(None, "ghost"), Svc("4", "")>> \o CatalogServices)}
PlansResponses(sid) ==
    {ApiError, ApiOk(CatalogPlans(sid)),
     ApiOk(<<Plan("8", None)>> \o CatalogPlans(sid))}

\* a reader that keeps every entry that has an id
list_services_IdOnly(resp) ==
    IF resp.ok
    THEN SelectSeq(resp.body, LAMBDA e : Truthy(e.id))
    ELSE <<>>

\* list_services: the entries with a non-empty id and name, in response order;
\* [] when the call failed.
list_services(resp) ==
    IF resp.ok
    THEN SelectSeq(resp.body, LAMBDA e : Truthy(e.id) /\ Truthy(e.name))
    ELSE <<>>

\* a reader that makes up a plan when the reply has none
get_application_plans_DefaultPlan(resp) ==
    IF resp.ok /\ SelectSeq(resp.body, LAMBDA e : Truthy(e.id) /\ Truthy(e.name)) # <<>>
    THEN SelectSeq(resp.body, LAMBDA e : Truthy(e.id) /\ Truthy(e.name))
    ELSE <<Plan("0", "default")>>

\* get_application_plans: same filter over the plan elements.
get_application_plans(resp) ==
    IF resp.ok
    THEN SelectSeq(resp.body, LAMBDA e : Truthy(e.id) /\ Truthy(e.name))
    ELSE <<>>

\* ------------------------------------------------------- applications
App(id, name, user_key, service_id, plan_id, account) ==
    [id |-> id, name |-> name, user_key |-> user_key, service_id |-> service_id,
     plan_id |-> plan_id, account |-> account]
\* the <application> element the server renders for an application it holds
AppElement(a) ==
    [id |-> a.id, name |-> a.name, user_key |-> a.user_key,
     service_id |-> a.service_id, plan_id |-> a.plan_id]
RECURSIVE AppElements(_, _)
AppElements(apps, account) ==
    IF apps = <<>> THEN <<>>
    ELSE (IF Head(apps).account = account THEN <<AppElement(Head(apps))>> ELSE <<>>)
         \o AppElements(Tail(apps), account)

AppComplete(e) ==
    /\ Truthy(e.id) /\ Truthy(e.name) /\ Truthy(e.user_key)
    /\ Truthy(e.plan_id) /\ Truthy(e.service_id)

\* get_account_applications: the complete application elements, in response
\* order; [] when the call failed.
get_account_applications(resp) ==
    IF resp.ok THEN SelectSeq(resp.body, AppComplete) ELSE <<>>

AppMatches(e, sid, pid) == e.service_id = sid /\ e.plan_id = pid

\* the scan of main: index of the first application matching the selected
\* service and the target plan, 0 when the loop ends without a match
RECURSIVE FirstMatchFrom(_, _, _, _)
FirstMatchFrom(apps, sid, pid, i) ==
    IF i > Len(apps) THEN 0
    ELSE IF AppMatches(apps[i], sid, pid) THEN i
    ELSE FirstMatchFrom(apps, sid, pid, i + 1)
\* a scan that goes through the whole list and keeps the last match
FirstMatch_KeepsLast(apps, sid, pid) ==
    LET matching == {i \in DOMAIN apps : AppMatches(apps[i], sid, pid)} IN
    IF matching = {} THEN 0
    ELSE CHOOSE i \in matching : \A j \in matching : j <= i
\* a scan that starts at the second application
FirstMatch_SkipsHead(apps, sid, pid) == FirstMatchFrom(apps, sid, pid, 2)
FirstMatch(apps, sid, pid) == FirstMatchFrom(apps, sid, pid, 1)

\* app_name of main: helix-app-<soeid>-<service id>-<plan id>-<timestamp>
AppName(user, sid, pid, t) ==
    "helix-app-" \o user \o "-" \o sid \o "-" \o pid \o "-" \o ToString(t)

\* a registration that returns the application id as the key
register_application_IdAsKey(resp) ==
    IF resp.ok /\ Truthy(resp.id) /\ Truthy(resp.user_key)
    THEN [ok |-> TRUE, app_id |-> resp.id, api_key |-> resp.id]
    ELSE [ok |-> FALSE, app_id |-> None, api_key |-> None]
\* a registration that asks of the reply only the key
register_application_KeyOnly(resp) ==
    IF resp.ok /\ Truthy(resp.user_key)
    THEN [ok |-> TRUE, app_id |-> resp.id, api_key |-> resp.user_key]
    ELSE [ok |-> FALSE, app_id |-> None, api_key |-> None]
\* register_application on the parsed reply: the dict when both id and
\* user_key are non-empty, None (ok = FALSE) otherwise.
register_application(resp) ==
    IF resp.ok /\ Truthy(resp.id) /\ Truthy(resp.user_key)
    THEN [ok |-> TRUE, app_id |-> resp.id, api_key |-> resp.user_key]
    ELSE [ok |-> FALSE, app_id |-> None, api_key |-> None]

\* find_account_by_soeid / create_threescale_account_via_signup on the parsed
\* reply: the text of the id element when the call succeeded and the element
\* is present and non-empty, None otherwise.
AccountIdOf(resp) == IF resp.ok /\ Truthy(resp.id) THEN resp.id ELSE None
\* a lookup that returns str() of the id text, "None" when there is no id
find_account_by_soeid_StrNone(resp) ==
    IF resp.ok THEN (IF Truthy(resp.id) THEN resp.id ELSE "None") ELSE None
find_account_by_soeid(resp) == AccountIdOf(resp)
\* a signup that looks for the id under a nested account element, which the
\* reply does not have
create_threescale_account_via_signup_Nested(resp) == None
\* a signup that reports account "0" when the reply carries no id
create_threescale_account_via_signup_DefaultId(resp) ==
    IF resp.ok /\ Truthy(resp.id) THEN resp.id ELSE "0"
create_threescale_account_via_signup(resp) == AccountIdOf(resp)

\* ------------------------------------------------------- server replies
FindResponses(accounts, user) ==
    {[ok |-> FALSE, id |-> None]}
    \cup (IF accounts[user] # None
          THEN {[ok |-> TRUE, id |-> accounts[user]]}
          ELSE {[ok |-> TRUE, id |-> None], [ok |-> TRUE, id |-> ""]})

\* the id the server gives the next account it creates
NewAccountId(accounts) == IF \E u \in Soeids : accounts[u] = "77" THEN "78" ELSE "77"
SignupResponses(accounts, user) ==
    {[ok |-> FALSE, id |-> None]}
    \cup (IF accounts[user] = None
          THEN {[ok |-> TRUE, id |-> None], [ok |-> TRUE, id |-> NewAccountId(accounts)]}
          ELSE {})

AppsResponses(apps, account) == {ApiError, ApiOk(AppElements(apps, account))}

NewAppId(apps) == "app" \o ToString(Len(apps) + 1)
NewUserKey(apps) == "key" \o ToString(Len(apps) + 1)
CreateResponses(apps) ==
    {[ok |-> FALSE, id |-> None, user_key |-> None]}
    \cup (IF Len(apps) < MaxApps
          THEN {[ok |-> TRUE, id |-> NewAppId(apps), user_key |-> NewUserKey(apps)],
                [ok |-> TRUE, id |-> NewAppId(apps), user_key |-> None],
                [ok |-> TRUE, id |-> None, user_key |-> NewUserKey(apps)]}
          ELSE {})

\* ------------------------------------------------------- command line
\* args.init: None when the option is absent (given = FALSE), otherwise its
\* text, split at the first '=' when it has one (type, value); a text without
\* '=' is kept whole in value.
NoInit == [given |-> FALSE, has_eq |-> FALSE, type |-> "", value |-> ""]
InitArg(has_eq, type, value) ==
    [given |-> TRUE, has_eq |-> has_eq, type |-> type, value |-> value]
Args(list, init) == [list |-> list, init |-> init]
\* --list; no option; --init ID=1, name=SVCA, id=7, svcA, plan=1, name= and ''
ArgsSet ==
    {Args(TRUE, NoInit), Args(FALSE, NoInit),
     Args(FALSE, InitArg(TRUE, "ID", "1")), Args(FALSE, InitArg(TRUE, "name", "SVCA")),
     Args(FALSE, InitArg(TRUE, "id", "7")), Args(FALSE, InitArg(FALSE, "", "svcA")),
     Args(FALSE, InitArg(TRUE, "plan", "1")), Args(FALSE, InitArg(TRUE, "name", "")),
     Args(FALSE, InitArg(FALSE, "", ""))}
\* line 561, `elif args.init:`: the option was given a non-empty text
InitRequested(a) == a.given /\ (a.has_eq \/ a.value # "")

\* str.lower() on the strings of the model
Lower(str) ==
    CASE str \in {"SVCA", "svcA"} -> "svca"
      [] str = "svcB" -> "svcb"
      [] str = "ID" -> "id"
      [] OTHER -> str

\* lines 563-573: identifier_type and identifier_value of --init, and whether
\* the argument is accepted
identifier_type(a) == IF a.has_eq THEN Lower(a.type) ELSE None
identifier_value(a) == IF a.has_eq THEN a.value ELSE None
InitArgValid(a) == identifier_type(a) \in {"name", "id"} /\ Truthy(identifier_value(a))

NoService == Svc(None, None)
\* lines 578-584: the first service whose id equals the value, or whose name
\* equals it case-insensitively
RECURSIVE SelectService(_, _)
SelectService(svcs, a) ==
    IF svcs = <<>> THEN NoService
    ELSE IF \/ identifier_type(a) = "id" /\ Head(svcs).id = identifier_value(a)
            \/ identifier_type(a) = "name"
               /\ Lower(Head(svcs).name) = Lower(identifier_value(a))
         THEN Head(svcs)
         ELSE SelectService(Tail(svcs), a)

\* answers to "Enter the number of the service you want to select"
Answer(numeric, n) == [numeric |-> numeric, n |-> n]
SelectionAnswers == {Answer(FALSE, 0)} \cup {Answer(TRUE, n) : n \in 0..3}
\* before the prompt was answered
NoAnswer == Answer(FALSE, 0 - 1)
\* a check that accepts only the first service
AnswerValid_OnlyFirst(ans, svcs) == ans.numeric /\ ans.n = 1 /\ ans.n <= Len(svcs)
\* int() succeeds and 1 <= choice <= len(services)
AnswerValid(ans, svcs) == ans.numeric /\ 1 <= ans.n /\ ans.n <= Len(svcs)

\* ------------------------------------------------------- environment
\* os.environ of the process: the value of each variable main() reads, None
\* when the variable is not set.
EnvNames == {"KEYCLOAK_URL", "KEYCLOAK_REALM", "KEYCLOAK_CLIENT_ID",
             "KEYCLOAK_CLIENT_SECRET", "THREESCALE_ADMIN_API_URL",
             "THREESCALE_ADMIN_API_KEY"}
EnvAllSet == [n \in EnvNames |-> "v"]
EnvWithout(names) == [n \in EnvNames |-> IF n \in names THEN None ELSE "v"]
Environments ==
    {EnvAllSet}
    \cup {EnvWithout({n}) : n \in EnvNames}
    \cup {EnvWithout({"KEYCLOAK_CLIENT_SECRET", "THREESCALE_ADMIN_API_KEY"})}

\* a lookup that exits on every unset variable, optional or not
get_env_variable_OptionalExits(e, var_name, optional, default) ==
    LET value == IF e[var_name] = None THEN default ELSE e[var_name] IN
    [exit |-> e[var_name] = None, value |-> value]

\* lines 62-80: os.getenv(var_name, default); exit(1) when the value is None and
\* the variable is not optional
get_env_variable(e, var_name, optional, default) ==
    LET value == IF e[var_name] = None THEN default ELSE e[var_name] IN
    [exit |-> value = None /\ ~optional, value |-> value]

\* lines 479-484: the reads of main(), in order
EnvReads(e) ==
    <<get_env_variable(e, "KEYCLOAK_URL", FALSE, None),
      get_env_variable(e, "KEYCLOAK_REALM", FALSE, None),
      get_env_variable(e, "KEYCLOAK_CLIENT_ID", FALSE, None),
      get_env_variable(e, "KEYCLOAK_CLIENT_SECRET", TRUE, ""),
      get_env_variable(e, "THREESCALE_ADMIN_API_URL", FALSE, None),
      get_env_variable(e, "THREESCALE_ADMIN_API_KEY", FALSE, None)>>

\* ------------------------------------------------------------- state
VARIABLES
    serverAccounts,      \* 3scale: username -> account id, None when no account
    serverApps,          \* 3scale: the applications it holds, in listing order
    cache,               \* the token cache file
    now,                 \* wall clock, seconds
    args,                \* parsed command line of the running process
    env,                 \* environment variables of the running process
    realm,               \* which username claims the provider puts in its tokens
    peer,                \* a second process of the same user, running concurrently
    pc,                  \* position of main()
    keycloak_access_token, soeid, password, email_id, account_id,
    temp_password_for_signup,
    services, selected_service, application_plans, existing_applications,
    api_key_to_use, found_existing_exact_match,
    services_with_keys, services_without_keys,
    reported,            \* the key printed for the user, None when none was
    reqLog,              \* requests issued by this run with their replies
    prompts,             \* prompts shown by this run
    answers,             \* rejected answers to the service-selection prompt,
                         \* counted up to MaxPrompts
    choice,              \* the last answer to the service-selection prompt
    cacheAtStart,        \* the cache file when the process started
    cacheWrites,         \* save_config calls of this run
    issued               \* the payload of the last login that was saved, by any run,
                         \* and the username that logged in

vars == <<serverAccounts, serverApps, cache, now, args, env, realm, peer, pc,
          keycloak_access_token, soeid, password, email_id, account_id,
          temp_password_for_signup,
          services, selected_service, application_plans, existing_applications,
          api_key_to_use, found_existing_exact_match,
          services_with_keys, services_without_keys, reported,
          reqLog, prompts, answers, choice, cacheAtStart, cacheWrites, issued>>

\* main() returned (Done: a key or the lists were printed; Failed: it gave up);
\* "Exited" is exit(1) of get_env_variable
Terminal == {"Done", "Failed"}

A1 == App("100", "helix-app-a", "k1", "1", "9", "42")
A3 == App("102", "helix-app-c", "k3", "1", "10", "42")
A4 == App("103", "helix-app-d", None, "1", "9", "42")
A5 == App("104", "helix-app-e", "k5", "1", "9", "42")
InitialApps == {<<>>, <<A1>>, <<A3, A1>>, <<A4>>, <<A5, A1>>}
NoAccounts == [u \in Soeids |-> None]
JdoeAccount == [u \in Soeids |-> IF u = "jdoe" THEN "42" ELSE None]
InitialAccounts == {NoAccounts, JdoeAccount}
ValidCache == CacheOf(JWT(TRUE, ReuseBufferSeconds + 1, "jdoe@corp", "jdoe", "sub-1"), "r0")

\* The second process is followed from the point where its main() has
\* account_id, selected_service and application_plans (line 598); "idle" when
\* no second process runs.
PeerAt(stage, user, account, sid, pid) ==
    [pc |-> stage, soeid |-> user, account_id |-> account,
     service_id |-> sid, plan_id |-> pid,
     existing_applications |-> <<>>, found_existing_exact_match |-> FALSE,
     api_key_to_use |-> None, created |-> FALSE]
PeerIdle == PeerAt("idle", None, None, None, None)

\* the variables of main() before its first statement
FreshRun ==
    /\ pc = "env"
    /\ keycloak_access_token = AbsentTok
    /\ soeid = None /\ password = None /\ email_id = None /\ account_id = None
    /\ temp_password_for_signup = None
    /\ services = <<>> /\ selected_service = NoService
    /\ application_plans = <<>> /\ existing_applications = <<>>
    /\ api_key_to_use = None /\ found_existing_exact_match = FALSE
    /\ services_with_keys = <<>> /\ services_without_keys = <<>>
    /\ reported = None
    /\ reqLog = <<>> /\ prompts = <<>> /\ answers = 0 /\ choice = NoAnswer
    /\ cacheWrites = 0

\* The first process starts at time 0.  Either the cache file is any of
\* InitialCaches and the server holds account 42 with one application, or the
\* cache file is absent or valid and the server is any of the initial servers,
\* both with every environment variable set; or the environment is any of
\* Environments, the cache file is absent or valid and the server holds
\* account 42 with one application.
Init ==
    /\ \/ /\ cache \in InitialCaches
          /\ serverAccounts = JdoeAccount
          /\ serverApps = <<A1>>
          /\ env = EnvAllSet
       \/ /\ cache \in {NoCache, ValidCache}
          /\ serverAccounts \in InitialAccounts
          /\ serverApps \in InitialApps
          /\ env = EnvAllSet
       \/ /\ cache \in {NoCache, ValidCache}
          /\ serverAccounts = JdoeAccount
          /\ serverApps = <<A1>>
          /\ env \in Environments
    /\ now = 0
    /\ args \in ArgsSet
    /\ peer = PeerIdle
    /\ realm = "preferred_username"
    /\ cacheAtStart = cache
    /\ issued = NothingIssued
    /\ FreshRun

\* a flow that looks the account up again once it has an id
AfterAccount_Recheck ==
    IF Len(reqLog) < 3 THEN "find" ELSE "services"

\* where main() goes once account_id is set (lines 528, 561-573, 639)
AfterAccount ==
    IF args.list THEN "services"
    ELSE IF InitRequested(args.init) /\ ~InitArgValid(args.init) THEN "Failed"
    ELSE "services"

\* lines 479-484: read the environment; exit(1) at the first required
\* variable that is not set
main_read_env ==
    /\ pc = "env"
    /\ pc' = IF \E i \in DOMAIN EnvReads(env) : EnvReads(env)[i].exit
             THEN "Exited" ELSE "auth"
    /\ UNCHANGED <<serverAccounts, serverApps, cache, now, args, env, realm, peer,
                   keycloak_access_token, soeid, password, email_id, account_id,
                   temp_password_for_signup,
                   services, selected_service, application_plans, existing_applications,
                   api_key_to_use, found_existing_exact_match,
                   services_with_keys, services_without_keys, reported,
                   reqLog, prompts, answers, choice, cacheAtStart, cacheWrites, issued>>

\* lines 486-499 up to the email check: authenticate, give up without a token
main_authenticate ==
    /\ pc = "auth"
    /\ \E default_soeid \in {"", "jdoe"}, entered \in {"", "jdoe"},
          pw \in Passwords, resp \in LoginResponses(now, "jdoe", realm) :
        LET r == sso_login_and_get_credentials(cache, now, default_soeid, entered, pw, resp) IN
        /\ keycloak_access_token' = r.access_token
        /\ soeid' = r.soeid
        /\ password' = r.password
        /\ email_id' = r.email_id
        /\ cache' = r.cache
        /\ cacheWrites' = cacheWrites + r.saves
        /\ issued' = IF r.saves > 0
                     THEN r.requests[1].resp @@ [username |-> r.requests[1].username]
                     ELSE issued
        /\ reqLog' = reqLog \o r.requests
        /\ prompts' = prompts \o r.prompts
        /\ pc' = IF ~TokTruthy(r.access_token) THEN "Failed"
                 ELSE IF ~Truthy(r.email_id) THEN "email" ELSE "find"
    /\ UNCHANGED <<serverAccounts, serverApps, now, args, env, realm, peer, account_id,
                   temp_password_for_signup,
                   services, selected_service, application_plans, existing_applications,
                   api_key_to_use, found_existing_exact_match,
                   services_with_keys, services_without_keys, reported,
                   answers, choice, cacheAtStart>>

\* lines 494-499: the token carried no email, ask for one
main_email_prompt ==
    /\ pc = "email"
    /\ \E answer \in {""} \cup Emails :
        /\ email_id' = answer
        /\ pc' = IF answer = "" THEN "Failed" ELSE "find"
    /\ prompts' = Append(prompts, "email")
    /\ UNCHANGED <<serverAccounts, serverApps, cache, now, args, env, realm, peer,
                   keycloak_access_token, soeid, password, account_id,
                   temp_password_for_signup,
                   services, selected_service, application_plans, existing_applications,
                   api_key_to_use, found_existing_exact_match,
                   services_with_keys, services_without_keys, reported,
                   reqLog, answers, choice, cacheAtStart, cacheWrites, issued>>

\* line 504 and the branch of line 506
main_find_account ==
    /\ pc = "find"
    /\ \E resp \in FindResponses(serverAccounts, soeid) :
        /\ account_id' = find_account_by_soeid(resp)
        /\ reqLog' = Append(reqLog, [op |-> "find", username |-> soeid, resp |-> resp])
        /\ pc' = IF Truthy(find_account_by_soeid(resp)) THEN AfterAccount ELSE "signup"
    /\ UNCHANGED <<serverAccounts, serverApps, cache, now, args, env, realm, peer,
                   keycloak_access_token, soeid, password, email_id,
                   temp_password_for_signup,
                   services, selected_service, application_plans, existing_applications,
                   api_key_to_use, found_existing_exact_match,
                   services_with_keys, services_without_keys, reported,
                   prompts, answers, choice, cacheAtStart, cacheWrites, issued>>

\* lines 506-524: the password for the signup (prompted for when the token was
\* reused), the signup request, give up without an account id
main_create_account ==
    /\ pc = "signup"
    /\ \E answer \in {"", "pw2"}, resp \in SignupResponses(serverAccounts, soeid) :
        LET temp == IF password = None THEN answer ELSE password IN
        /\ temp_password_for_signup' = temp
        /\ prompts' = IF password = None THEN Append(prompts, "signup_password") ELSE prompts
        /\ IF ~Truthy(temp)
           THEN /\ pc' = "Failed"
                /\ UNCHANGED <<serverAccounts, account_id, reqLog>>
           ELSE /\ reqLog' = Append(reqLog,
                       [op |-> "signup", username |-> soeid, email |-> email_id,
                        org_name |-> email_id, password |-> temp,
                        resp |-> resp])
                /\ serverAccounts' = IF resp.ok /\ Truthy(resp.id)
                                     THEN [serverAccounts EXCEPT ![soeid] = resp.id]
                                     ELSE serverAccounts
                /\ account_id' = create_threescale_account_via_signup(resp)
                /\ pc' = IF Truthy(create_threescale_account_via_signup(resp))
                         THEN AfterAccount ELSE "Failed"
    /\ UNCHANGED <<serverApps, cache, now, args, env, realm, peer,
                   keycloak_access_token, soeid, password, email_id,
                   services, selected_service, application_plans, existing_applications,
                   api_key_to_use, found_existing_exact_match,
                   services_with_keys, services_without_keys, reported,
                   answers, choice, cacheAtStart, cacheWrites, issued>>

\* lines 530, 575-590, 641-645: fetch the services; --init picks the service,
\* the interactive flow stops on an empty list
main_list_services ==
    /\ pc = "services"
    /\ \E resp \in ServicesResponses :
        LET svcs == list_services(resp) IN
        /\ services' = svcs
        /\ reqLog' = Append(reqLog, [op |-> "services"])
        /\ IF args.list
           THEN pc' = "list_apps" /\ UNCHANGED selected_service
           ELSE IF InitRequested(args.init)
           THEN /\ selected_service' = SelectService(svcs, args.init)
                /\ pc' = IF SelectService(svcs, args.init) = NoService
                         THEN "Failed" ELSE "plans"
           ELSE /\ UNCHANGED selected_service
                /\ pc' = IF svcs = <<>> THEN "Failed" ELSE "select"
    /\ UNCHANGED <<serverAccounts, serverApps, cache, now, args, env, realm, peer,
                   keycloak_access_token, soeid, password, email_id, account_id,
                   temp_password_for_signup,
                   application_plans, existing_applications,
                   api_key_to_use, found_existing_exact_match,
                   services_with_keys, services_without_keys, reported,
                   prompts, answers, choice, cacheAtStart, cacheWrites, issued>>

\* existing_service_info[sid] of line 533: the user_key of the last
\* application of the list on that service, None when there is none
RECURSIVE existing_service_info(_, _)
existing_service_info(apps, sid) ==
    IF apps = <<>> THEN None
    ELSE IF apps[Len(apps)].service_id = sid THEN apps[Len(apps)].user_key
    ELSE existing_service_info(SubSeq(apps, 1, Len(apps) - 1), sid)

RECURSIVE WithKeys(_, _)
WithKeys(svcs, apps) ==
    IF svcs = <<>> THEN <<>>
    ELSE (IF \E i \in 1..Len(apps) : apps[i].service_id = Head(svcs).id
          THEN <<[id |-> Head(svcs).id, name |-> Head(svcs).name,
                  api_key |-> existing_service_info(apps, Head(svcs).id)]>>
          ELSE <<>>) \o WithKeys(Tail(svcs), apps)
WithoutKeys(svcs, apps) ==
    SelectSeq(svcs, LAMBDA sv : ~\E i \in 1..Len(apps) : apps[i].service_id = sv.id)

\* lines 531-560: --list fetches the applications and prints the two lists
main_list ==
    /\ pc = "list_apps"
    /\ \E resp \in AppsResponses(serverApps, account_id) :
        LET apps == get_account_applications(resp) IN
        /\ existing_applications' = apps
        /\ reqLog' = Append(reqLog, [op |-> "apps", account |-> account_id, ok |-> resp.ok])
        /\ services_with_keys' = WithKeys(services, apps)
        /\ services_without_keys' = WithoutKeys(services, apps)
    /\ pc' = "Done"
    /\ UNCHANGED <<serverAccounts, serverApps, cache, now, args, env, realm, peer,
                   keycloak_access_token, soeid, password, email_id, account_id,
                   temp_password_for_signup,
                   services, selected_service, application_plans,
                   api_key_to_use, found_existing_exact_match, reported,
                   prompts, answers, choice, cacheAtStart, cacheWrites, issued>>

\* lines 651-661: one answer to the selection prompt; the loop goes on, without
\* a limit, until a number within 1..len(services) is entered
main_select_service ==
    /\ pc = "select"
    /\ \E ans \in SelectionAnswers :
        /\ choice' = ans
        /\ IF AnswerValid(ans, services)
           THEN /\ selected_service' = services[ans.n]
                /\ pc' = "plans"
                /\ UNCHANGED answers
           ELSE /\ answers' = IF answers < MaxPrompts THEN answers + 1 ELSE answers
                /\ UNCHANGED <<selected_service, pc>>
    /\ prompts' = IF prompts # <<>> /\ prompts[Len(prompts)] = "choice"
                  THEN prompts ELSE Append(prompts, "choice")
    /\ UNCHANGED <<serverAccounts, serverApps, cache, now, args, env, realm, peer,
                   keycloak_access_token, soeid, password, email_id, account_id,
                   temp_password_for_signup,
                   services, application_plans, existing_applications,
                   api_key_to_use, found_existing_exact_match,
                   services_with_keys, services_without_keys, reported,
                   reqLog, cacheAtStart, cacheWrites, issued>>

\* lines 592-598 (--init) and 663-670 (interactive): fetch the plans of the
\* selected service, stop when there is none
main_get_plans ==
    /\ pc = "plans"
    /\ \E resp \in PlansResponses(selected_service.id) :
        /\ application_plans' = get_application_plans(resp)
        /\ reqLog' = Append(reqLog,
               [op |-> "plans", service_id |-> selected_service.id])
        /\ pc' = IF get_application_plans(resp) = <<>> THEN "Failed" ELSE "apps"
    /\ UNCHANGED <<serverAccounts, serverApps, cache, now, args, env, realm, peer,
                   keycloak_access_token, soeid, password, email_id, account_id,
                   temp_password_for_signup,
                   services, selected_service, existing_applications,
                   api_key_to_use, found_existing_exact_match,
                   services_with_keys, services_without_keys, reported,
                   prompts, answers, choice, cacheAtStart, cacheWrites, issued>>

\* lines 598-614 (--init) and 670-684 (interactive): fetch the applications of
\* the account, scan them for the selected service and the first plan, report
\* the key of the first match
main_get_applications ==
    /\ pc = "apps"
    /\ \E resp \in AppsResponses(serverApps, account_id) :
        LET apps == get_account_applications(resp)
            target_plan_for_creation == application_plans[1]
            i == FirstMatch(apps, selected_service.id, target_plan_for_creation.id)
        IN
        /\ existing_applications' = apps
        /\ reqLog' = Append(reqLog, [op |-> "apps", account |-> account_id, ok |-> resp.ok])
        /\ found_existing_exact_match' = (i # 0)
        /\ api_key_to_use' = IF i # 0 THEN apps[i].user_key ELSE None
        /\ reported' = IF i # 0 THEN apps[i].user_key ELSE None
        /\ pc' = IF i # 0 THEN "Done" ELSE "create"
    /\ UNCHANGED <<serverAccounts, serverApps, cache, now, args, env, realm, peer,
                   keycloak_access_token, soeid, password, email_id, account_id,
                   temp_password_for_signup,
                   services, selected_service, application_plans,
                   services_with_keys, services_without_keys,
                   prompts, answers, choice, cacheAtStart, cacheWrites, issued>>

\* a registration that, when it fails, removes the account the run provisioned
main_register_RollsBack ==
    /\ pc = "create"
    /\ \E resp \in CreateResponses(serverApps) :
        LET target_plan_for_creation == application_plans[1]
            app_name == AppName(soeid, selected_service.id, target_plan_for_creation.id, now)
            new_app_details == register_application(resp)
        IN
        /\ reqLog' = Append(reqLog,
               [op |-> "create", account |-> account_id,
                plan_id |-> target_plan_for_creation.id, name |-> app_name, resp |-> resp])
        /\ serverApps' = IF resp.ok
                         THEN Append(serverApps,
                                  App(NewAppId(serverApps), app_name, resp.user_key,
                                      PlanService(target_plan_for_creation.id),
                                      target_plan_for_creation.id, account_id))
                         ELSE serverApps
        /\ api_key_to_use' = IF new_app_details.ok THEN new_app_details.api_key ELSE None
        /\ reported' = IF new_app_details.ok THEN new_app_details.api_key ELSE None
        /\ pc' = IF new_app_details.ok THEN "Done" ELSE "Failed"
        /\ serverAccounts' = IF new_app_details.ok \/ temp_password_for_signup = None
                             THEN serverAccounts
                             ELSE [serverAccounts EXCEPT ![soeid] = None]
    /\ UNCHANGED <<cache, now, args, env, realm, peer,
                   keycloak_access_token, soeid, password, email_id, account_id,
                   temp_password_for_signup,
                   services, selected_service, application_plans, existing_applications,
                   found_existing_exact_match,
                   services_with_keys, services_without_keys,
                   prompts, answers, choice, cacheAtStart, cacheWrites, issued>>

\* lines 615-634 (--init) and 685-704 (interactive): register a new
\* application on the first plan; the server, when it accepts, holds one more
\* application
main_register ==
    /\ pc = "create"
    /\ \E resp \in CreateResponses(serverApps) :
        LET target_plan_for_creation == application_plans[1]
            app_name == AppName(soeid, selected_service.id, target_plan_for_creation.id, now)
            new_app_details == register_application(resp)
        IN
        /\ reqLog' = Append(reqLog,
               [op |-> "create", account |-> account_id,
                plan_id |-> target_plan_for_creation.id, name |-> app_name, resp |-> resp])
        /\ serverApps' = IF resp.ok
                         THEN Append(serverApps,
                                  App(NewAppId(serverApps), app_name, resp.user_key,
                                      PlanService(target_plan_for_creation.id),
                                      target_plan_for_creation.id, account_id))
                         ELSE serverApps
        /\ api_key_to_use' = IF new_app_details.ok THEN new_app_details.api_key ELSE None
        /\ reported' = IF new_app_details.ok THEN new_app_details.api_key ELSE None
        /\ pc' = IF new_app_details.ok THEN "Done" ELSE "Failed"
    /\ UNCHANGED <<serverAccounts, cache, now, args, env, realm, peer,
                   keycloak_access_token, soeid, password, email_id, account_id,
                   temp_password_for_signup,
                   services, selected_service, application_plans, existing_applications,
                   found_existing_exact_match,
                   services_with_keys, services_without_keys,
                   prompts, answers, choice, cacheAtStart, cacheWrites, issued>>

\* the process has ended; the next invocation starts later from the same shell
\* environment, with the cache file and the server as the last one left them
NewRun ==
    /\ pc \in Terminal \cup {"Exited"}
    /\ now' \in now..MaxNow
    /\ args' \in ArgsSet
    /\ cacheAtStart' = cache
    /\ pc' = "env"
    /\ keycloak_access_token' = AbsentTok
    /\ soeid' = None /\ password' = None /\ email_id' = None /\ account_id' = None
    /\ temp_password_for_signup' = None
    /\ services' = <<>> /\ selected_service' = NoService
    /\ application_plans' = <<>> /\ existing_applications' = <<>>
    /\ api_key_to_use' = None /\ found_existing_exact_match' = FALSE
    /\ services_with_keys' = <<>> /\ services_without_keys' = <<>>
    /\ reported' = None
    /\ reqLog' = <<>> /\ prompts' = <<>> /\ answers' = 0 /\ choice' = NoAnswer
    /\ cacheWrites' = 0
    /\ UNCHANGED <<serverAccounts, serverApps, cache, env, realm, peer, issued>>

Next ==
    \/ main_read_env
    \/ main_authenticate
    \/ main_email_prompt
    \/ main_find_account
    \/ main_create_account
    \/ main_list_services
    \/ main_list
    \/ main_select_service
    \/ main_get_plans
    \/ main_get_applications
    \/ main_register
    \/ NewRun

Spec == Init /\ [][Next]_vars

\* ------------------------------------------------- two concurrent processes
\* lines 598-614 in the second process: fetch the applications and scan them
peer_get_applications ==
    /\ peer.pc = "apps"
    /\ \E resp \in AppsResponses(serverApps, peer.account_id) :
        LET apps == get_account_applications(resp)
            i == FirstMatch(apps, peer.service_id, peer.plan_id)
        IN
        peer' = [peer EXCEPT !.existing_applications = apps,
                             !.found_existing_exact_match = (i # 0),
                             !.api_key_to_use = IF i # 0 THEN apps[i].user_key ELSE None,
                             !.pc = IF i # 0 THEN "Done" ELSE "create"]
    /\ UNCHANGED <<serverAccounts, serverApps, cache, now, args, env, realm, pc,
                   keycloak_access_token, soeid, password, email_id, account_id,
                   temp_password_for_signup,
                   services, selected_service, application_plans, existing_applications,
                   api_key_to_use, found_existing_exact_match,
                   services_with_keys, services_without_keys, reported,
                   reqLog, prompts, answers, choice, cacheAtStart, cacheWrites, issued>>

\* a registration that waits while the other process is between its scan and
\* its create request
peer_register_Locked ==
    /\ peer.pc = "create"
    /\ pc # "create"
    /\ \E resp \in CreateResponses(serverApps) :
        LET app_name == AppName(peer.soeid, peer.service_id, peer.plan_id, now)
            new_app_details == register_application(resp)
        IN
        /\ serverApps' = IF resp.ok
                         THEN Append(serverApps,
                                  App(NewAppId(serverApps), app_name, resp.user_key,
                                      PlanService(peer.plan_id), peer.plan_id,
                                      peer.account_id))
                         ELSE serverApps
        /\ peer' = [peer EXCEPT !.api_key_to_use = IF new_app_details.ok
                                                   THEN new_app_details.api_key ELSE None,
                                !.created = new_app_details.ok,
                                !.pc = IF new_app_details.ok THEN "Done" ELSE "Failed"]
    /\ UNCHANGED <<serverAccounts, cache, now, args, env, realm, pc,
                   keycloak_access_token, soeid, password, email_id, account_id,
                   temp_password_for_signup,
                   services, selected_service, application_plans, existing_applications,
                   api_key_to_use, found_existing_exact_match,
                   services_with_keys, services_without_keys, reported,
                   reqLog, prompts, answers, choice, cacheAtStart, cacheWrites, issued>>

\* lines 615-634 in the second process: register a new application
peer_register ==
    /\ peer.pc = "create"
    /\ \E resp \in CreateResponses(serverApps) :
        LET app_name == AppName(peer.soeid, peer.service_id, peer.plan_id, now)
            new_app_details == register_application(resp)
        IN
        /\ serverApps' = IF resp.ok
                         THEN Append(serverApps,
                                  App(NewAppId(serverApps), app_name, resp.user_key,
                                      PlanService(peer.plan_id), peer.plan_id,
                                      peer.account_id))
                         ELSE serverApps
        /\ peer' = [peer EXCEPT !.api_key_to_use = IF new_app_details.ok
                                                   THEN new_app_details.api_key ELSE None,
                                !.created = new_app_details.ok,
                                !.pc = IF new_app_details.ok THEN "Done" ELSE "Failed"]
    /\ UNCHANGED <<serverAccounts, cache, now, args, env, realm, pc,
                   keycloak_access_token, soeid, password, email_id, account_id,
                   temp_password_for_signup,
                   services, selected_service, application_plans, existing_applications,
                   api_key_to_use, found_existing_exact_match,
                   services_with_keys, services_without_keys, reported,
                   reqLog, prompts, answers, choice, cacheAtStart, cacheWrites, issued>>

\* Two processes of user jdoe, whose account 42 has no application on
\* (service 1, plan 9): the first one starts main(), the second one is about
\* to fetch the applications for that service and plan.
InitRace ==
    /\ cache \in {NoCache, ValidCache}
    /\ serverAccounts = JdoeAccount
    /\ serverApps \in {<<>>, <<A3>>}
    /\ env = EnvAllSet
    /\ now = 0
    /\ args \in ArgsSet
    /\ peer = PeerAt("apps", "jdoe", "42", "1", "9")
    /\ realm = "preferred_username"
    /\ cacheAtStart = cache
    /\ issued = NothingIssued
    /\ FreshRun

\* a second passes while the two processes run
tick ==
    /\ now < MaxNow
    /\ now' = now + 1
    /\ UNCHANGED <<serverAccounts, serverApps, cache, args, env, realm, peer, pc,
                   keycloak_access_token, soeid, password, email_id, account_id,
                   temp_password_for_signup,
                   services, selected_service, application_plans, existing_applications,
                   api_key_to_use, found_existing_exact_match,
                   services_with_keys, services_without_keys, reported,
                   reqLog, prompts, answers, choice, cacheAtStart, cacheWrites, issued>>

\* one run of main() in the first process, interleaved with the second
NextRace ==
    \/ main_read_env
    \/ main_authenticate
    \/ main_email_prompt
    \/ main_find_account
    \/ main_create_account
    \/ main_list_services
    \/ main_list
    \/ main_select_service
    \/ main_get_plans
    \/ main_get_applications
    \/ main_register
    \/ peer_get_applications
    \/ peer_register
    \/ tick

SpecRace == InitRace /\ [][NextRace]_vars

\* ------------------------------------------------- one run, with progress
\* One run of main(): every request it issues returns (a reply or an error)
\* and every prompt it shows is answered, so a step that is possible is
\* eventually taken.
InitLive ==
    /\ cache \in {NoCache, ValidCache}
    /\ serverAccounts \in InitialAccounts
    /\ serverApps \in {<<>>, <<A1>>}
    /\ env \in Environments
    /\ now = 0
    /\ args \in ArgsSet
    /\ peer = PeerIdle
    /\ realm = "preferred_username"
    /\ cacheAtStart = cache
    /\ issued = NothingIssued
    /\ FreshRun

NextLive ==
    \/ main_read_env
    \/ main_authenticate
    \/ main_email_prompt
    \/ main_find_account
    \/ main_create_account
    \/ main_list_services
    \/ main_list
    \/ main_select_service
    \/ main_get_plans
    \/ main_get_applications
    \/ main_register

SpecLive == InitLive /\ [][NextLive]_vars /\ WF_vars(NextLive)

\* ------------------------------------------------- the catalog readers alone
\* <service> and <plan> elements as a reply can hold them: complete, without
\* id element, with an empty id, without name element, with an empty name
CatalogEntries ==
    {Svc("1", "svcA"), Svc("2", "svcB"), Svc(None, "ghost"), Svc("", "blank"),
     Svc("4", None), Svc("5", "")}
RECURSIVE SeqsUpTo(_, _)
SeqsUpTo(S, n) ==
    IF n = 0 THEN {<<>>}
    ELSE SeqsUpTo(S, n - 1)
         \cup {Append(q, e) : q \in {p \in SeqsUpTo(S, n - 1) : Len(p) = n - 1}, e \in S}
CatalogReplies == {ApiError} \cup {ApiOk(b) : b \in SeqsUpTo(CatalogEntries, MaxEntries)}

\* list_services called once on a reply
read_services ==
    /\ pc = "reader"
    /\ \E resp \in CatalogReplies :
        /\ services' = list_services(resp)
        /\ pc' = "returned"
        /\ reqLog' = <<[op |-> "services", resp |-> resp]>>
    /\ UNCHANGED <<serverAccounts, serverApps, cache, now, args, env, realm, peer,
                   keycloak_access_token, soeid, password, email_id, account_id,
                   temp_password_for_signup,
                   selected_service, application_plans, existing_applications,
                   api_key_to_use, found_existing_exact_match,
                   services_with_keys, services_without_keys, reported,
                   prompts, answers, choice, cacheAtStart, cacheWrites, issued>>

\* get_application_plans called once on a reply
read_plans ==
    /\ pc = "reader"
    /\ \E resp \in CatalogReplies :
        /\ application_plans' = get_application_plans(resp)
        /\ pc' = "returned"
        /\ reqLog' = <<[op |-> "plans", resp |-> resp]>>
    /\ UNCHANGED <<serverAccounts, serverApps, cache, now, args, env, realm, peer,
                   keycloak_access_token, soeid, password, email_id, account_id,
                   temp_password_for_signup,
                   services, selected_service, existing_applications,
                   api_key_to_use, found_existing_exact_match,
                   services_with_keys, services_without_keys, reported,
                   prompts, answers, choice, cacheAtStart, cacheWrites, issued>>

InitCatalog ==
    /\ cache = NoCache
    /\ serverAccounts = JdoeAccount
    /\ serverApps = <<>>
    /\ env = EnvAllSet
    /\ now = 0
    /\ args = Args(FALSE, NoInit)
    /\ peer = PeerIdle
    /\ realm = "preferred_username"
    /\ cacheAtStart = cache
    /\ issued = NothingIssued
    /\ pc = "reader"
    /\ keycloak_access_token = AbsentTok
    /\ soeid = None /\ password = None /\ email_id = None /\ account_id = None
    /\ temp_password_for_signup = None
    /\ services = <<>> /\ selected_service = NoService
    /\ application_plans = <<>> /\ existing_applications = <<>>
    /\ api_key_to_use = None /\ found_existing_exact_match = FALSE
    /\ services_with_keys = <<>> /\ services_without_keys = <<>>
    /\ reported = None
    /\ reqLog = <<>> /\ prompts = <<>> /\ answers = 0 /\ choice = NoAnswer
    /\ cacheWrites = 0

NextCatalog ==
    \/ read_services
    \/ read_plans

SpecCatalog == InitCatalog /\ [][NextCatalog]_vars

\* ----------------------------------------------------- the earlier variants
\* create_api_key.py and threescale_automation.py from the point where main()
\* has account_id, the selected service and application_plans.
EarlierPrograms == {"create_api_key.py", "threescale_automation.py"}

\* What Element.find returns: None (found = FALSE) or the child element, with
\* its text and the number of its own subelements.
Element(text, subelements) ==
    [found |-> text # None, text |-> text, subelements |-> subelements]
\* bool() of what find returned: None is false, and an element is true iff it
\* has subelements (len(element) # 0)
ElementTruthy(e) == e.found /\ e.subelements # 0

\* the <application> elements of a reply as the variants read them; sub is the
\* number of subelements inside each field (0 for the plain text fields the
\* server renders)
XmlAppElements(elems, sub) ==
    [i \in 1..Len(elems) |->
        [id |-> Element(elems[i].id, sub), name |-> Element(elems[i].name, sub),
         user_key |-> Element(elems[i].user_key, sub),
         plan_id |-> Element(elems[i].plan_id, sub),
         service_id |-> Element(elems[i].service_id, sub)]]
\* the call fails, or the server renders the applications of the account, with
\* plain text fields or with fields that carry nested markup
EarlierAppsResponses(apps, account) ==
    {ApiError,
     ApiOk(XmlAppElements(AppElements(apps, account), 0)),
     ApiOk(XmlAppElements(AppElements(apps, account), 1))}

\* get_account_applications of the variants: all([app_id, app_name, user_key,
\* plan_id, service_id]) tests the elements themselves; [] when the call failed
earlier_get_account_applications(resp) ==
    IF resp.ok
    THEN LET kept == SelectSeq(resp.body, LAMBDA e :
                        /\ ElementTruthy(e.id) /\ ElementTruthy(e.name)
                        /\ ElementTruthy(e.user_key) /\ ElementTruthy(e.plan_id)
                        /\ ElementTruthy(e.service_id))
         IN [i \in 1..Len(kept) |->
                [id |-> kept[i].id.text, name |-> kept[i].name.text,
                 user_key |-> kept[i].user_key.text,
                 plan_id |-> kept[i].plan_id.text,
                 service_id |-> kept[i].service_id.text]]
    ELSE <<>>

\* register_application of the variants: the reply must have an id and a
\* user_key element
earlier_register_application(resp) ==
    IF resp.ok /\ resp.id # None /\ resp.user_key # None
    THEN [ok |-> TRUE, app_id |-> resp.id, api_key |-> resp.user_key]
    ELSE [ok |-> FALSE, app_id |-> None, api_key |-> None]

\* the application name: create_api_key.py ends it with the constant "auto",
\* threescale_automation.py with the time of the call
EarlierAppName(program, user, sid, pid, t) ==
    IF program = "create_api_key.py"
    THEN "helix-app-" \o user \o "-" \o sid \o "-" \o pid \o "-auto"
    ELSE AppName(user, sid, pid, t)

\* os.environ["GENERATED_API_KEY"] = api_key_to_use
SetGeneratedApiKey(e, key) == [GENERATED_API_KEY |-> key] @@ e
GeneratedApiKey == IF "GENERATED_API_KEY" \in DOMAIN env THEN env.GENERATED_API_KEY ELSE None

\* fetch the applications and scan them for (selected service, first plan);
\* a key found is exported at once
earlier_main_get_applications ==
    /\ pc = "earlier_apps"
    /\ \E resp \in EarlierAppsResponses(serverApps, account_id) :
        LET apps == earlier_get_account_applications(resp)
            target_plan == application_plans[1]
            i == FirstMatch(apps, selected_service.id, target_plan.id)
            existing_api_key == IF i # 0 THEN apps[i].user_key ELSE None
        IN
        /\ existing_applications' = apps
        /\ reqLog' = Append(reqLog, [op |-> "apps", account |-> account_id,
                                     ok |-> resp.ok, resp |-> resp])
        /\ found_existing_exact_match' = (i # 0)
        /\ IF Truthy(existing_api_key)
           THEN /\ api_key_to_use' = existing_api_key
                /\ env' = SetGeneratedApiKey(env, existing_api_key)
                /\ pc' = "Done"
           ELSE /\ pc' = "earlier_create"
                /\ UNCHANGED <<api_key_to_use, env>>
    /\ UNCHANGED <<serverAccounts, serverApps, cache, now, args, realm, peer,
                   keycloak_access_token, soeid, password, email_id, account_id,
                   temp_password_for_signup,
                   services, selected_service, application_plans,
                   services_with_keys, services_without_keys, reported,
                   prompts, answers, choice, cacheAtStart, cacheWrites, issued>>

\* register an application on the first plan and export its key; without a
\* key create_api_key.py calls exit(1) and threescale_automation.py returns
earlier_main_register ==
    /\ pc = "earlier_create"
    /\ \E resp \in CreateResponses(serverApps) :
        LET target_plan == application_plans[1]
            app_name == EarlierAppName(args.program, soeid, selected_service.id,
                                       target_plan.id, now)
            new_app_details == earlier_register_application(resp)
        IN
        /\ reqLog' = Append(reqLog,
               [op |-> "create", account |-> account_id,
                plan_id |-> target_plan.id, name |-> app_name, resp |-> resp])
        /\ serverApps' = IF resp.ok
                         THEN Append(serverApps,
                                  App(NewAppId(serverApps), app_name, resp.user_key,
                                      PlanService(target_plan.id),
                                      target_plan.id, account_id))
                         ELSE serverApps
        /\ IF new_app_details.ok
           THEN /\ api_key_to_use' = new_app_details.api_key
                /\ env' = SetGeneratedApiKey(env, new_app_details.api_key)
                /\ pc' = "Done"
           ELSE /\ pc' = IF args.program = "create_api_key.py" THEN "Exited" ELSE "Failed"
                /\ UNCHANGED <<api_key_to_use, env>>
    /\ UNCHANGED <<serverAccounts, cache, now, args, realm, peer,
                   keycloak_access_token, soeid, password, email_id, account_id,
                   temp_password_for_signup,
                   services, selected_service, application_plans, existing_applications,
                   found_existing_exact_match,
                   services_with_keys, services_without_keys, reported,
                   prompts, answers, choice, cacheAtStart, cacheWrites, issued>>

\* either program at the application stage: user jdoe with account 42, service
\* 1 selected, its plans fetched, the server holding any of InitialApps or
\* one application on the second plan
InitEarlier ==
    /\ cache = NoCache
    /\ serverAccounts = JdoeAccount
    /\ serverApps \in InitialApps \cup {<<A3>>}
    /\ env = EnvAllSet
    /\ now \in 0..MaxNow
    /\ args \in {[program |-> p] : p \in EarlierPrograms}
    /\ peer = PeerIdle
    /\ realm = "preferred_username"
    /\ cacheAtStart = cache
    /\ issued = NothingIssued
    /\ pc = "earlier_apps"
    /\ keycloak_access_token = AbsentTok
    /\ soeid = "jdoe" /\ password = None /\ email_id = None /\ account_id = "42"
    /\ temp_password_for_signup = None
    /\ services = CatalogServices /\ selected_service = CatalogServices[1]
    /\ application_plans = CatalogPlans("1") /\ existing_applications = <<>>
    /\ api_key_to_use = None /\ found_existing_exact_match = FALSE
    /\ services_with_keys = <<>> /\ services_without_keys = <<>>
    /\ reported = None
    /\ reqLog = <<>> /\ prompts = <<>> /\ answers = 0 /\ choice = NoAnswer
    /\ cacheWrites = 0

NextEarlier ==
    \/ earlier_main_get_applications
    \/ earlier_main_register

SpecEarlier == InitEarlier /\ [][NextEarlier]_vars

\* =================================================================
\* Properties
\* =================================================================
Issued(op) == {i \in DOMAIN reqLog : reqLog[i].op = op}
Count(op) == Cardinality(Issued(op))
TheRequest(op) == reqLog[CHOOSE i \in Issued(op) : TRUE]

\* the run has fetched and scanned the applications (--init or interactive)
Scanned == ~args.list /\ Count("apps") > 0
TargetService == selected_service.id
TargetPlan == application_plans[1].id
OnTarget(a) == a.service_id = TargetService /\ a.plan_id = TargetPlan
ScanHasMatch == \E i \in DOMAIN existing_applications : OnTarget(existing_applications[i])

\* C1: once the scan has run over an application list that contains an
\* application on (selected service, first plan), the run is Done, the key it
\* reports is the user_key of such an application and no create request was
\* issued, whatever else the list contains.
C1_ExistingKeyReused ==
    (Scanned /\ ScanHasMatch) =>
        /\ pc = "Done"
        /\ Count("create") = 0
        /\ found_existing_exact_match
        /\ \E i \in DOMAIN existing_applications :
              /\ OnTarget(existing_applications[i])
              /\ reported = existing_applications[i].user_key
              /\ api_key_to_use = existing_applications[i].user_key

C1_Witness ==
    /\ Scanned /\ pc = "Done" /\ reported = "k1"
    /\ \E i, j \in DOMAIN existing_applications :
          OnTarget(existing_applications[i]) /\ ~OnTarget(existing_applications[j])

\* C2: when the scanned list holds no application on (selected service, first
\* plan), the run issues exactly one create request before it ends, never more,
\* and a run that ends with a key ends with the user_key of that create
\* response; a response without id or key ends the run Failed without a key.
C2_OneCreateAndItsKey ==
    /\ Count("create") <= 1
    /\ (Scanned /\ ~ScanHasMatch /\ pc \in Terminal) =>
          /\ Count("create") = 1
          /\ LET r == TheRequest("create").resp IN
             IF r.ok /\ Truthy(r.id) /\ Truthy(r.user_key)
             THEN pc = "Done" /\ api_key_to_use = r.user_key /\ reported = r.user_key
             ELSE pc = "Failed" /\ api_key_to_use = None /\ reported = None
    /\ (Scanned /\ ~ScanHasMatch /\ pc = "create") => Count("create") = 0

C2_Witness ==
    /\ Scanned /\ ~ScanHasMatch /\ pc = "Done"
    /\ Count("create") = 1
    /\ Truthy(api_key_to_use)
    /\ api_key_to_use = TheRequest("create").resp.user_key

\* C3: a run issues a create request only when the server holds no application
\* of the account on (selected service, first plan).
ServerHoldsTarget ==
    \E i \in DOMAIN serverApps :
        /\ serverApps[i].account = account_id
        /\ OnTarget(serverApps[i])
C3_CreateOnlyIfAbsent ==
    [][(pc = "create" /\ pc' # "create") => ~ServerHoldsTarget]_vars

\* ----------------------------------------------------------------- C4
\* sso_login_and_get_credentials has returned
Authenticated == pc \notin {"env", "auth", "Exited"}
Asked == {prompts[i] : i \in DOMAIN prompts}
StartTok == cacheAtStart.access_token
HasClaims(tok) ==
    /\ tok.kind = "jwt" /\ tok.has_exp
    /\ Truthy(tok.email)
    /\ (Truthy(tok.preferred_username) \/ Truthy(tok.sub))
StartTokValid ==
    /\ cacheAtStart.section
    /\ HasClaims(StartTok)
    /\ StartTok.exp > now + ReuseBufferSeconds

\* C4: when the process starts with a cached token that carries exp, email and
\* a username and exp > now + 60, authentication sends nothing to the identity
\* provider, asks nothing, leaves the cache alone and returns that token, its
\* username and email, with password None.
C4_TokenReuse ==
    (Authenticated /\ StartTokValid) =>
        /\ Count("token") = 0
        /\ "soeid" \notin Asked /\ "password" \notin Asked /\ "email" \notin Asked
        /\ keycloak_access_token = StartTok
        /\ password = None
        /\ soeid = (IF Truthy(StartTok.preferred_username)
                    THEN StartTok.preferred_username ELSE StartTok.sub)
        /\ email_id = StartTok.email
        /\ cache = cacheAtStart

C4_Witness ==
    /\ pc = "find" /\ StartTokValid
    /\ ~Truthy(StartTok.preferred_username) /\ soeid = "sub-1"
    /\ keycloak_access_token = StartTok

\* ----------------------------------------------------------------- C5
StartTokExpired ==
    /\ cacheAtStart.section
    /\ StartTok.kind = "jwt" /\ StartTok.has_exp
    /\ StartTok.exp <= now + ReuseBufferSeconds

\* C5 as stated: a run that starts with a cached token with exp <= now + 60
\* has issued exactly one password-grant request when it ends.
C5_ExactlyOneLogin ==
    (pc \in Terminal /\ StartTokExpired) => Count("token") = 1

\* C5 amended: such a run never reuses the token; it asks for the identifier
\* and issues exactly one password-grant request, except that with an empty
\* identifier it issues none and fails.
C5_FreshLoginUnlessNoIdentifier ==
    (Authenticated /\ StartTokExpired) =>
        /\ "soeid" \in Asked
        /\ Count("token") = (IF soeid = None THEN 0 ELSE 1)
        /\ (soeid = None => pc = "Failed")
        /\ (Count("token") = 1 => TheRequest("token").username = soeid)

C5_Witness ==
    /\ Authenticated /\ StartTokExpired
    /\ StartTok.exp = now + ReuseBufferSeconds
    /\ HasClaims(StartTok)
    /\ Count("token") = 1

\* ----------------------------------------------------------------- C6
FindNoId ==
    /\ Count("find") = 1
    /\ TheRequest("find").resp.ok
    /\ TheRequest("find").resp.id = None

\* C6 as stated: after a successful find-response without id element, the run
\* has issued exactly one signup request when it ends.
C6_SignupExactlyOnce ==
    (pc \in Terminal /\ FindNoId) => Count("signup") = 1

\* C6 amended: after such a find-response the run issues one signup request,
\* never two, except that a run which reused its token and gets an empty
\* answer to the password prompt issues none and fails.
C6_SignupOnceUnlessNoPassword ==
    /\ Count("signup") <= 1
    /\ (FindNoId /\ pc # "signup") =>
          /\ Count("signup") = (IF password = None /\ temp_password_for_signup = "" THEN 0 ELSE 1)
          /\ (Count("signup") = 0 => pc = "Failed" /\ "signup_password" \in Asked)
          /\ (Count("signup") = 1 => TheRequest("signup").username = soeid)

C6_Witness ==
    /\ FindNoId /\ pc # "signup"
    /\ Count("signup") = 1
    /\ password = None /\ temp_password_for_signup = "pw2"

\* ----------------------------------------------------------------- C7
SignupGaveId ==
    /\ Count("signup") = 1
    /\ TheRequest("signup").resp.ok
    /\ Truthy(TheRequest("signup").resp.id)
FindGaveId ==
    /\ Count("find") = 1
    /\ TheRequest("find").resp.ok
    /\ Truthy(TheRequest("find").resp.id)
ScopedTo(a) ==
    \A i \in Issued("apps") \cup Issued("create") : reqLog[i].account = a

\* C7: when signup returned account id A, account_id is A and every
\* applications fetch and create of the run targets A; the same as after a
\* find that returned A, and a request scoped to an account is issued only
\* after one of the two returned an id.
C7_ProvisionedAccountUsed ==
    /\ SignupGaveId =>
          /\ account_id = TheRequest("signup").resp.id
          /\ ScopedTo(TheRequest("signup").resp.id)
    /\ FindGaveId =>
          /\ account_id = TheRequest("find").resp.id
          /\ ScopedTo(TheRequest("find").resp.id)
          /\ Count("signup") = 0
    /\ (Issued("apps") \cup Issued("create") # {}) => (SignupGaveId \/ FindGaveId)

C7_Witness ==
    /\ SignupGaveId /\ pc = "Done"
    /\ account_id = "77"
    /\ Count("apps") = 1 /\ Count("create") = 1
    /\ TheRequest("create").account = "77"

\* ----------------------------------------------------------------- C8
Rank(op) ==
    CASE op = "token" -> 1
      [] op = "find" -> 2
      [] op = "signup" -> 3
      [] op = "services" -> 4
      [] op = "plans" -> 5
      [] op = "apps" -> 6
      [] op = "create" -> 7
StageOrder ==
    \A i, j \in DOMAIN reqLog : i < j => Rank(reqLog[i].op) < Rank(reqLog[j].op)

\* C8: the requests of a run are issued in the order token, find, signup,
\* services, plans, applications, create, each at most once, and a run that
\* has reached Done or Failed issues no further request.
C8_LinearFlow ==
    /\ [](StageOrder)
    /\ [][(pc \in Terminal) => (reqLog' = <<>> /\ pc' = "env")]_vars
    /\ [][reqLog' # reqLog =>
            \/ pc \in Terminal
            \/ (pc \notin Terminal /\ Len(reqLog') = Len(reqLog) + 1
                /\ SubSeq(reqLog', 1, Len(reqLog)) = reqLog)]_vars

C8_Witness ==
    /\ pc = "Done"
    /\ Len(reqLog) = 7

IssuedValid ==
    /\ issued.ok
    /\ HasClaims(issued.access_token)
    /\ issued.access_token.exp > now + ReuseBufferSeconds

\* C10: from a login that returned payload P until the next one, the cache
\* holds the keys of P with their values and its access_token reads back as
\* P's; a process that starts while that token has exp > now + 60 and carries
\* email and username reuses it without a login request.
C10_CacheRoundTrip ==
    /\ []((issued.ok /\ issued.access_token.kind \in {"jwt", "garbage", "empty"}) =>
            /\ cache.section
            /\ cache.access_token = issued.access_token
            /\ (issued.refresh_token # None => cache.refresh_token = issued.refresh_token))
    /\ [][(pc = "auth" /\ pc' # "auth" /\ IssuedValid) =>
            /\ reqLog' = <<>>
            /\ prompts' = <<>>
            /\ keycloak_access_token' = issued.access_token
            /\ pc' \in {"find"}]_vars

C10_Witness ==
    /\ pc = "find" /\ Count("token") = 0
    /\ issued.ok /\ IssuedValid
    /\ keycloak_access_token = issued.access_token
    /\ cacheAtStart.access_token = issued.access_token

\* ----------------------------------------------------------------- C11
RequiredNames == EnvNames \ {"KEYCLOAK_CLIENT_SECRET"}
RequiredMissing == \E n \in RequiredNames : env[n] = None

\* C11: a process whose environment lacks a required value exits with status 1
\* at the environment step, before any prompt, any request and any access to
\* the token cache, and takes no further step; a process whose environment has
\* every required value never exits that way, with or without
\* KEYCLOAK_CLIENT_SECRET.
C11_ConfigurationError ==
    /\ []((pc # "env") => (pc = "Exited" <=> RequiredMissing))
    /\ [](pc = "Exited" =>
            /\ reqLog = <<>> /\ prompts = <<>>
            /\ cache = cacheAtStart /\ cacheWrites = 0
            /\ keycloak_access_token = AbsentTok /\ reported = None)
    /\ [][(pc = "env" /\ RequiredMissing) => pc' = "Exited"]_vars
    /\ [][(pc = "Exited") => (pc' = "env" /\ cache' = cache
                              /\ serverAccounts' = serverAccounts
                              /\ serverApps' = serverApps)]_vars

C11_Witness ==
    /\ pc = "Exited"
    /\ env["KEYCLOAK_CLIENT_SECRET"] = None
    /\ env["THREESCALE_ADMIN_API_KEY"] = None
    /\ cacheAtStart.section

\* ----------------------------------------------------------------- C12
KnownOps == {"token", "find", "signup", "services", "plans", "apps", "create"}
\* one sequence is the other with elements added at the end
IsPrefix(a, b) == Len(a) <= Len(b) /\ SubSeq(b, 1, Len(a)) = a

\* C12: no step removes or alters what the server holds: an account stays with
\* its id and the application list only grows at its end, and every request of
\* a run is one of the seven of the flow; a run that provisioned an account and
\* then fails, at the registration or before it, leaves that account on the
\* server.
C12_NoRollback ==
    /\ [][/\ \A u \in Soeids :
               serverAccounts[u] # None => serverAccounts'[u] = serverAccounts[u]
          /\ IsPrefix(serverApps, serverApps')]_vars
    /\ [](\A i \in DOMAIN reqLog : reqLog[i].op \in KnownOps)
    /\ []((SignupGaveId /\ pc = "Failed") =>
             serverAccounts[soeid] = TheRequest("signup").resp.id)

C12_Witness ==
    /\ SignupGaveId /\ pc = "Failed"
    /\ Count("create") = 1
    /\ ~TheRequest("create").resp.ok
    /\ serverAccounts[soeid] = "77"

\* ----------------------------------------------------------------- C13
InWithKeys(sid) == \E i \in DOMAIN services_with_keys : services_with_keys[i].id = sid
InWithoutKeys(sid) ==
    \E i \in DOMAIN services_without_keys : services_without_keys[i].id = sid
TimesListed(sid) ==
    Cardinality({i \in DOMAIN services_with_keys : services_with_keys[i].id = sid})
    + Cardinality({i \in DOMAIN services_without_keys : services_without_keys[i].id = sid})
AccountHasAppOn(sid) ==
    \E i \in DOMAIN serverApps :
        serverApps[i].account = account_id /\ serverApps[i].service_id = sid

\* C13: when --list has printed its two lists for the catalog it received,
\* every service of the catalog is in exactly one of them, in the list of
\* services with a key iff the server holds an application of the account on
\* that service, and the run issued no create request.
C13_ListPartition ==
    (args.list /\ pc = "Done" /\ services = CatalogServices) =>
        /\ \A k \in DOMAIN CatalogServices :
              LET sid == CatalogServices[k].id IN
              /\ TimesListed(sid) = 1
              /\ InWithKeys(sid) <=> AccountHasAppOn(sid)
        /\ Count("create") = 0

\* ----------------------------------------------------------------- C14
InitGiven == ~args.list /\ args.init.given
ArgType == IF args.init.has_eq THEN Lower(args.init.type) ELSE None
ArgValue == IF args.init.has_eq THEN args.init.value ELSE None
Malformed == ~args.init.has_eq \/ ArgType \notin {"name", "id"} \/ ArgValue = ""
Designates(sv) ==
    \/ ArgType = "id" /\ sv.id = ArgValue
    \/ ArgType = "name" /\ Lower(sv.name) = Lower(ArgValue)
NoneDesignated == \A k \in DOMAIN services : ~Designates(services[k])
CatalogRequests == Count("plans") + Count("apps") + Count("create")
\* the services request has been answered
ServicesRead == Count("services") = 1

\* C14: a run with --init selects the first service of the list that the
\* argument designates (id equal, or name equal up to case); the key it ends
\* with is the key of an application the server holds on that service; with a
\* malformed argument, or when no service is designated, it ends without a
\* plans, applications or create request.
C14_InitSelection ==
    /\ (InitGiven /\ ~Malformed /\ ServicesRead /\ ~NoneDesignated) =>
          \E k \in DOMAIN services :
              /\ Designates(services[k])
              /\ \A j \in 1..(k - 1) : ~Designates(services[j])
              /\ selected_service = services[k]
    /\ (InitGiven /\ ~Malformed /\ pc = "Done") =>
          \E i \in DOMAIN serverApps :
              /\ serverApps[i].user_key = api_key_to_use
              /\ serverApps[i].service_id = selected_service.id
              /\ serverApps[i].account = account_id
    /\ (InitGiven /\ Malformed) =>
          /\ CatalogRequests = 0
          /\ pc \notin {"select", "plans", "apps", "create", "Done"}
    /\ (InitGiven /\ ~Malformed /\ ServicesRead /\ NoneDesignated) =>
          /\ CatalogRequests = 0
          /\ pc = "Failed"

\* ----------------------------------------------------------------- C15
\* both processes work on the same account, service and plan
SameTarget ==
    /\ peer.account_id = account_id
    /\ peer.service_id = selected_service.id
    /\ application_plans # <<>> /\ peer.plan_id = application_plans[1].id
AppsOnPeerTarget ==
    {i \in DOMAIN serverApps :
        /\ serverApps[i].account = peer.account_id
        /\ serverApps[i].service_id = peer.service_id
        /\ serverApps[i].plan_id = peer.plan_id}
MainCreated ==
    /\ pc = "Done" /\ Count("create") = 1
    /\ TheRequest("create").resp.ok
BothCreated == MainCreated /\ peer.pc = "Done" /\ peer.created /\ SameTarget

\* C15: nothing makes one process wait for the other: while the second
\* process is between its scan and its create request the first one can scan,
\* and when both have scanned without a match both can create; when both have
\* created, the server holds two applications for the same account, service
\* and plan.
C15_ConcurrentRace ==
    /\ []((pc = "apps" /\ peer.pc = "create") => ENABLED main_get_applications)
    /\ []((pc = "create" /\ peer.pc = "create") =>
             (ENABLED main_register /\ ENABLED peer_register))
    /\ [](BothCreated =>
             /\ Cardinality(AppsOnPeerTarget) >= 2
             /\ ~found_existing_exact_match /\ ~peer.found_existing_exact_match)

C15_Witness ==
    /\ BothCreated
    /\ Cardinality(AppsOnPeerTarget) = 2
    /\ api_key_to_use # peer.api_key_to_use
    /\ existing_applications = <<>> /\ peer.existing_applications = <<>>

\* ----------------------------------------------------------------- C16
StartTokDefective ==
    /\ cacheAtStart.section
    /\ \/ StartTok.kind = "garbage"
       \/ /\ StartTok.kind = "jwt"
          /\ \/ ~StartTok.has_exp
             \/ StartTok.email = None
             \/ (StartTok.preferred_username = None /\ StartTok.sub = None)

\* C16: a process that starts with a cached token that does not decode, or
\* has no exp, no email or neither preferred_username nor sub, does not reuse
\* it, whatever its expiry: authentication begins with the identifier prompt,
\* and a token is held only after a password-grant request of this run.
C16_ClaimsRequired ==
    (Authenticated /\ StartTokDefective) =>
        /\ prompts # <<>> /\ prompts[1] = "soeid"
        /\ Count("token") = (IF soeid = None THEN 0 ELSE 1)
        /\ TokTruthy(keycloak_access_token) =>
              /\ Count("token") = 1
              /\ password # None
              /\ keycloak_access_token = TheRequest("token").resp.access_token

C16_Witness ==
    /\ Authenticated /\ StartTokDefective
    /\ StartTok.kind = "jwt" /\ StartTok.has_exp
    /\ StartTok.exp > now + ReuseBufferSeconds
    /\ StartTok.email = None
    /\ Count("token") = 1
    /\ pc = "find"

\* ----------------------------------------------------------------- C17
\* the password-grant request of this run was rejected or failed, or its reply
\* carries no access token (no such key, or an empty or null value)
LoginFailed ==
    /\ Count("token") = 1
    /\ LET r == TheRequest("token").resp IN
       \/ ~r.ok
       \/ r.access_token.kind \in {"absent", "empty", "null"}

\* C17: after a failed login the run is Failed, holds no token and has issued
\* no request besides the login request; the server is as it was.
C17_LoginFailureFatal ==
    /\ [](LoginFailed =>
            /\ pc = "Failed"
            /\ Len(reqLog) = 1
            /\ ~TokTruthy(keycloak_access_token)
            /\ account_id = None /\ reported = None)
    /\ [][(LoginFailed /\ pc = "Failed") =>
            (pc' = "env" /\ serverAccounts' = serverAccounts
             /\ serverApps' = serverApps)]_vars

C17_Witness ==
    /\ LoginFailed /\ pc = "Failed"
    /\ TheRequest("token").resp.ok
    /\ TheRequest("token").resp.access_token.kind = "absent"
    /\ cacheAtStart.access_token.kind = "jwt"

\* ----------------------------------------------------------------- C18
\* the find request of this run got no usable reply (connection failure,
\* timeout, HTTP error or unparsable body)
FindFailed == Count("find") = 1 /\ ~TheRequest("find").resp.ok

\* C18: a run whose find request failed issues no signup request and ends
\* Failed; a signup request is issued only after a find-response that was
\* received and carries no account id.
C18_FindErrorAborts ==
    /\ FindFailed => (Count("signup") = 0 /\ (pc \in Terminal => pc = "Failed"))
    /\ Count("signup") > 0 =>
          /\ Count("find") = 1
          /\ TheRequest("find").resp.ok
          /\ ~Truthy(TheRequest("find").resp.id)

\* ----------------------------------------------------------------- C19
\* the applications fetch of a run that scans got no usable reply
AppsFetchFailed == Scanned /\ ~TheRequest("apps").ok

\* C19: a run whose applications fetch failed issues no create request, ends
\* Failed and holds and reports no key.
C19_AppsErrorAborts ==
    AppsFetchFailed =>
        /\ Count("create") = 0
        /\ api_key_to_use = None /\ reported = None
        /\ pc \in Terminal => pc = "Failed"

\* ----------------------------------------------------------------- C20
\* the signup request of this run failed, or its reply carries no account id
SignupFailed ==
    /\ Count("signup") = 1
    /\ LET r == TheRequest("signup").resp IN ~r.ok \/ ~Truthy(r.id)

\* C20: after a failed signup the run is Failed without an account id; the
\* signup request is the last request of the run, so there is no second
\* signup and no services, plans, applications or create request.
C20_ProvisioningFailureFatal ==
    /\ [](Count("signup") <= 1)
    /\ [](SignupFailed =>
            /\ pc = "Failed"
            /\ account_id = None
            /\ reqLog[Len(reqLog)].op = "signup"
            /\ Count("services") + Count("plans") + Count("apps") + Count("create") = 0
            /\ reported = None)
    /\ [][(SignupFailed /\ pc = "Failed") =>
            (pc' = "env" /\ serverAccounts' = serverAccounts
             /\ serverApps' = serverApps)]_vars

C20_Witness ==
    /\ SignupFailed /\ pc = "Failed"
    /\ TheRequest("signup").resp.ok
    /\ TheRequest("signup").resp.id = None
    /\ TheRequest("find").resp.ok

\* ----------------------------------------------------------------- C21
\* the account was not found and main() has passed lines 509-516
ProvisioningReached == temp_password_for_signup # None
TokenReused == Authenticated /\ Count("token") = 0 /\ TokTruthy(keycloak_access_token)

\* C21: once the run has gone into provisioning, the provisioning password was
\* prompted for iff the token was reused; a run that logged in sends in its
\* signup request the password of its login request, a run that reused its
\* token sends the answer to the prompt, and an empty answer ends the run
\* Failed without a signup request.  The prompt is shown nowhere else.
C21_ProvisioningPassword ==
    /\ "signup_password" \in Asked => ProvisioningReached
    /\ ProvisioningReached =>
          /\ Count("find") = 1 /\ ~Truthy(find_account_by_soeid(TheRequest("find").resp))
          /\ "signup_password" \in Asked <=> TokenReused
          /\ (~TokenReused /\ Count("signup") = 1) =>
                /\ Count("token") = 1
                /\ TheRequest("signup").password = TheRequest("token").password
                /\ TheRequest("signup").password = password
          /\ (TokenReused /\ Count("signup") = 1) =>
                /\ TheRequest("signup").password = temp_password_for_signup
                /\ temp_password_for_signup # ""
          /\ (TokenReused /\ temp_password_for_signup = "") =>
                /\ pc = "Failed" /\ Count("signup") = 0
          /\ ~TokenReused => Count("signup") = 1

C21_Witness ==
    /\ ProvisioningReached /\ ~TokenReused
    /\ Count("signup") = 1 /\ Count("token") = 1
    /\ TheRequest("signup").password = "pw"
    /\ "signup_password" \notin Asked
    /\ SignupGaveId

\* ----------------------------------------------------------------- C22
\* the create request was answered, and the reply lacks a non-empty id or a
\* non-empty user_key
CreateIncomplete ==
    /\ Count("create") = 1
    /\ LET r == TheRequest("create").resp IN
       r.ok /\ (~Truthy(r.id) \/ ~Truthy(r.user_key))

\* C22: a create reply without application id or without key ends the run
\* Failed with no key held or reported; a run that ends its create request
\* with a key got that key in a reply that also carries an application id.
C22_RegistrationValidated ==
    /\ CreateIncomplete =>
          /\ pc = "Failed"
          /\ api_key_to_use = None /\ reported = None
    /\ (Count("create") = 1 /\ (Truthy(api_key_to_use) \/ Truthy(reported))) =>
          /\ Truthy(TheRequest("create").resp.id)
          /\ api_key_to_use = TheRequest("create").resp.user_key
          /\ reported = api_key_to_use
          /\ pc = "Done"

C22_Witness ==
    /\ CreateIncomplete /\ pc = "Failed"
    /\ TheRequest("create").resp.id = None
    /\ Truthy(TheRequest("create").resp.user_key)
    /\ Len(serverApps) = 2

\* ----------------------------------------------------------------- C23
MatchingIndices == {i \in DOMAIN existing_applications : OnTarget(existing_applications[i])}
\* the matching application that comes first in the fetched list
EarliestMatch == CHOOSE i \in MatchingIndices : \A j \in MatchingIndices : i <= j

\* C23: when the scanned list holds one or more applications on (selected
\* service, first plan), the key used and reported is the user_key of the one
\* with the smallest index, whatever follows it in the list.
C23_FirstMatchWins ==
    (Scanned /\ MatchingIndices # {}) =>
        /\ found_existing_exact_match
        /\ api_key_to_use = existing_applications[EarliestMatch].user_key
        /\ reported = existing_applications[EarliestMatch].user_key
        /\ Count("create") = 0

C23_Witness ==
    /\ Scanned /\ Cardinality(MatchingIndices) = 2
    /\ \E i, j \in MatchingIndices :
          /\ i < j
          /\ existing_applications[i].user_key # existing_applications[j].user_key
          /\ api_key_to_use = existing_applications[i].user_key
    /\ pc = "Done"

\* ----------------------------------------------------------------- C24
HasIdAndName(e) == e.id \notin {None, ""} /\ e.name \notin {None, ""}
\* positions of the entries of a reply body that have both fields
KeptPositions(body) == {i \in DOMAIN body : HasIdAndName(body[i])}
\* the k-th of them in response order
KthKept(body, k) ==
    CHOOSE i \in KeptPositions(body) :
        Cardinality({j \in KeptPositions(body) : j <= i}) = k
ReaderReply == reqLog[1].resp
ReaderResult == IF reqLog[1].op = "services" THEN services ELSE application_plans

\* C24: the list a reader returns for a reply has one entry for each entry of
\* the reply that has a non-empty id and a non-empty name, the k-th entry of
\* the list being the k-th such entry of the reply; a reply with incomplete
\* entries still gives the complete ones, and a failed call gives the empty
\* list.
C24_CatalogReader ==
    reqLog # <<>> =>
        IF ReaderReply.ok
        THEN /\ Len(ReaderResult) = Cardinality(KeptPositions(ReaderReply.body))
             /\ \A k \in DOMAIN ReaderResult :
                   ReaderResult[k] = ReaderReply.body[KthKept(ReaderReply.body, k)]
        ELSE ReaderResult = <<>>

C24_Witness ==
    /\ reqLog # <<>> /\ reqLog[1].op = "services" /\ ReaderReply.ok
    /\ Len(ReaderReply.body) = 3
    /\ ~HasIdAndName(ReaderReply.body[2])
    /\ services = <<ReaderReply.body[1], ReaderReply.body[3]>>
    /\ services[1] # services[2]

\* ----------------------------------------------------------------- C25
\* C25: the applications the server holds, those the two processes created
\* among them, have pairwise distinct names.
C25_UniqueApplicationName ==
    \A i, j \in DOMAIN serverApps :
        i # j => serverApps[i].name # serverApps[j].name

\* ----------------------------------------------------------------- C26
\* main() has returned or the process has exited
Ended == {"Done", "Failed", "Exited"}
ChoiceInRange(c, svcs) == c.numeric /\ c.n \in 1..Len(svcs)
\* a step at the selection prompt: an answer that is a number n within
\* 1..len(services) selects the n-th service and leaves the loop, any other
\* answer leaves the service unselected and the run at the prompt
SelectionRule ==
    (pc = "select") =>
        IF ChoiceInRange(choice', services)
        THEN /\ vars' # vars => pc' = "plans"
             /\ pc' = "plans" => selected_service' = services[choice'.n]
        ELSE pc' = "select" /\ selected_service' = NoService

\* C26 as stated: every run reaches its end, and the selection loop follows
\* the rule above.
C26_Termination ==
    /\ <>(pc \in Ended)
    /\ [][SelectionRule]_vars

\* C26 amended: every run reaches its end unless it stays at the selection
\* prompt for ever, which it does when no answer is a number within range; the
\* selection loop follows the rule above and is the only place a run can stay
\* in.
C26_TerminationUnlessNeverSelected ==
    /\ <>(pc \in Ended) \/ <>[](pc = "select")
    /\ [][SelectionRule]_vars
    /\ [][(pc # "select" /\ pc \notin Ended) => pc' # pc]_vars

C26_Witness ==
    /\ pc = "plans" /\ answers > 0
    /\ choice = Answer(TRUE, 2)
    /\ selected_service = services[2]
    /\ Len(services) = 2

\* ----------------------------------------------------------------- C27
\* the plans of the selected service were asked for
PlansFetched == Count("plans") = 1
\* the server has no plan for the selected service
ServiceHasNoPlan == CatalogPlans(selected_service.id) = <<>>

\* C27: a run that got an empty plan list for the selected service, because
\* the service has no plan or for any other reason, is Failed, has issued
\* neither the applications fetch nor a create request and holds and reports
\* no key; a create request carries the id of the first plan of the list
\* fetched for the selected service.
C27_NoPlans ==
    /\ (PlansFetched /\ (application_plans = <<>> \/ ServiceHasNoPlan)) =>
          /\ pc = "Failed"
          /\ Count("apps") = 0 /\ Count("create") = 0
          /\ api_key_to_use = None /\ reported = None
    /\ Count("create") = 1 =>
          /\ PlansFetched
          /\ TheRequest("plans").service_id = selected_service.id
          /\ application_plans # <<>>
          /\ TheRequest("create").plan_id = application_plans[1].id
          /\ TheRequest("create").plan_id = CatalogPlans(selected_service.id)[1].id
    /\ (Count("apps") = 1 /\ ~args.list) => (PlansFetched /\ application_plans # <<>>)

C27_Witness ==
    /\ PlansFetched /\ ServiceHasNoPlan
    /\ selected_service.id = "2"
    /\ application_plans = <<>>
    /\ pc = "Failed"
    /\ choice = Answer(TRUE, 2)


\* ------------------------------------------- identifier across login and reuse
\* Runs of main() against a provider of either kind, starting without a cache
\* file and with account 42 holding one application: the first run that logs
\* in stores the token the later runs reuse.
InitIdentity ==
    /\ cache = NoCache
    /\ serverAccounts = JdoeAccount
    /\ serverApps = <<A1>>
    /\ env = EnvAllSet
    /\ realm \in Realms
    /\ now = 0
    /\ args \in ArgsSet
    /\ peer = PeerIdle
    /\ cacheAtStart = cache
    /\ issued = NothingIssued
    /\ FreshRun

SpecIdentity == InitIdentity /\ [][Next]_vars

\* the run reuses the token that an earlier run stored after its login
ReusesStoredToken ==
    /\ TokenReused
    /\ issued.ok
    /\ cacheAtStart.access_token = issued.access_token

\* C28: a run that reuses the token stored by an earlier fresh login looks the
\* account up under the identifier that login was made with.
C28_IdentifierStable ==
    (ReusesStoredToken /\ Count("find") = 1) =>
        TheRequest("find").username = issued.username



\* ------------------------------------------------ --list and --init agreement
\* What a run of --init for service sid reports against the applications the
\* server holds now, every request answered: the key of the first complete
\* application on (sid, first plan), else the key of the application it
\* registers; None when the service has no plan.
InitKey(sid) ==
    LET plans == get_application_plans(ApiOk(CatalogPlans(sid)))
        apps == get_account_applications(ApiOk(AppElements(serverApps, account_id)))
    IN IF plans = <<>> THEN None
       ELSE LET i == FirstMatch(apps, sid, plans[1].id) IN
            IF i # 0 THEN apps[i].user_key ELSE NewUserKey(serverApps)

\* a finished --init run that found its application reports InitKey of the
\* service it selected
InitReportsInitKey ==
    (pc = "Done" /\ ~args.list /\ InitRequested(args.init) /\ found_existing_exact_match) =>
        reported = InitKey(selected_service.id)

\* C29: every key a finished --list run shows for a service is the key --init
\* reports for that service against the same server.
C29_ListInitAgreement ==
    /\ InitReportsInitKey
    /\ (pc = "Done" /\ args.list) =>
          \A i \in 1..Len(services_with_keys) :
              services_with_keys[i].api_key = InitKey(services_with_keys[i].id)



\* ------------------------------------------------------ the earlier variants
\* the reply to the applications request holds an element with all five fields
\* for the selected service and its first plan
CompleteMatch(e) ==
    /\ e.id.found /\ e.name.found /\ e.user_key.found
    /\ e.plan_id.found /\ e.service_id.found
    /\ e.service_id.text = selected_service.id
    /\ e.plan_id.text = application_plans[1].id
ReplyMatches ==
    LET resp == TheRequest("apps").resp IN
    IF resp.ok THEN {i \in 1..Len(resp.body) : CompleteMatch(resp.body[i])} ELSE {}

\* C30: a run of an earlier variant that ends with a key has exported the
\* user_key of the first complete matching application element of the reply
\* and sent no registration request, when the reply holds one, and otherwise
\* the user_key returned by its one registration request.
C30_EarlierVariantKey ==
    (pc = "Done" /\ Count("apps") = 1) =>
        IF ReplyMatches # {}
        THEN /\ Count("create") = 0
             /\ LET first == CHOOSE i \in ReplyMatches : \A j \in ReplyMatches : i <= j IN
                GeneratedApiKey = TheRequest("apps").resp.body[first].user_key.text
        ELSE /\ Count("create") = 1
             /\ GeneratedApiKey = TheRequest("create").resp.user_key

====
